---- MODULE Spec2Model ----
(***************************************************************************)
(* Model of the message draft store (Draft.ts): per-channel drafts, the    *)
(* per-channel outbox of unsent messages, the attachment cache and the     *)
(* asynchronous send pipeline (sendDraft / retrySend / cancelSend).        *)
(*                                                                         *)
(* JavaScript objects with optional keys are modelled as functions whose   *)
(* DOMAIN is the set of keys that are present with a defined value.  The   *)
(* store is single threaded: every action below is one run of a handler    *)
(* from its entry (or from the resumption of an await) up to the next      *)
(* await or its end.  An attempt is one call of sendDraft; its pc says     *)
(* where it waits ("upload", "send") or how it ended ("done", "failed",    *)
(* "uploadError" for the thrown "Upload Error", "typeError" for a thrown   *)
(* TypeError on a file that is no longer in the cache).  Upload progress   *)
(* cells, image dimensions, the text selection and the editing marker do   *)
(* not influence drafts, outbox or cache and are left out.  delivered,     *)
(* cancelled, lastOp and the origin, retryOf and failedUploads fields of   *)
(* an attempt only record what happened; no action reads them.  previews   *)
(* holds the object URLs that addFile created for images and that          *)
(* deleteFile has not revoked.  Spec is the store with one channel and     *)
(* its send pipeline, SpecTwo the same with two channels and fewer files,  *)
(* SpecDraft the editing of one draft (replies, image files) without       *)
(* sending.                                                                *)
(***************************************************************************)
EXTENDS Integers, Sequences, FiniteSets, TLC

VARIABLES
  drafts,       \* TypeDraft.drafts: channel id -> DraftData
  outbox,       \* TypeDraft.outbox: channel id -> list of UnsentMessage
  fileCache,    \* Draft.fileCache: file id -> cache entry
  fileCount,    \* number of file ids insecureUniqueId() has handed out
  attempts,     \* the sendDraft calls made so far, by idempotency key
  pendingAdds,  \* addFile calls waiting for the image to decode
  delivered,    \* payload -> number of successful sendMessage completions
  cancelled,    \* keys whose outbox entry an explicit cancelSend removed
  previews,     \* file ids whose preview (object URL) was created and not released
  lastOp        \* whether the last step was a sendDraft call without a draft

vars == <<drafts, outbox, fileCache, fileCount, attempts, pendingAdds, delivered, cancelled,
          previews, lastOp>>

\* ---------------------------------------------------------------- bounds
MaxKeys == 2
MaxFiles == 3
MAX_ATTACHMENTS == 2
MAX_REPLIES == 2

Channels == {"A"}
Contents == {"hi"}
MessageIds == {"m1"}
FileKinds == {FALSE}   \* FALSE: not an image type, no preview, addFile does not wait
DraftKeys == {"content", "replies", "files"}

\* ---------------------------------------------------------------- helpers
EmptyObject == [k \in {} |-> 0]

Merge(a, b) == [k \in (DOMAIN a) \cup (DOMAIN b) |-> IF k \in DOMAIN b THEN b[k] ELSE a[k]]

Restrict(a, S) == [k \in (DOMAIN a) \cap S |-> a[k]]

PutEverywhere(m, c, v) == [x \in DOMAIN m \cup {c} |-> v]

Put(m, c, v) == [x \in (DOMAIN m) \cup {c} |-> IF x = c THEN v ELSE m[x]]

Remove(m, S) == [x \in (DOMAIN m) \ S |-> m[x]]

RECURSIVE FilterSeq(_, _)
FilterSeq(s, drop) ==
  IF s = <<>> THEN <<>>
  ELSE IF Head(s) \in drop THEN FilterSeq(Tail(s), drop)
       ELSE <<Head(s)>> \o FilterSeq(Tail(s), drop)

Range(s) == {s[i] : i \in DOMAIN s}

Min(a, b) == IF a < b THEN a ELSE b

\* ids handed out so far: ulid() and insecureUniqueId() never repeat
NextKey == Cardinality(DOMAIN attempts) + 1

NextFileId == fileCount + 1

\* the id the upload service answers with: a new one for every upload
NoId == <<>>

ServerId(k, f) == <<k, f>>

\* ---------------------------------------------------------------- store
\* AbstractStore.set on an object-valued path: keys of data are merged into
\* the previous object, a key whose value is undefined (undef) is deleted
StoreSet(m, c, data, undef) ==
  IF c \in DOMAIN m
  THEN Put(m, c, Restrict(Merge(m[c], data), DraftKeys \ undef))
  ELSE Put(m, c, data)

getDraft(c) == IF c \in DOMAIN drafts THEN drafts[c] ELSE EmptyObject

GetDraftOf(ds, c) == IF c \in DOMAIN ds THEN ds[c] ELSE EmptyObject

getPendingMessages(c) == IF c \in DOMAIN outbox THEN outbox[c] ELSE <<>>

FilesOf(d) == IF "files" \in DOMAIN d THEN d.files ELSE <<>>

RepliesOf(d) == IF "replies" \in DOMAIN d THEN d.replies ELSE <<>>

ContentOf(d) == IF "content" \in DOMAIN d THEN d.content ELSE ""

Other == [op |-> "other", channel |-> ""]

\* ---------------------------------------------------------------- init
Init ==
  /\ drafts = EmptyObject
  /\ outbox = EmptyObject
  /\ fileCache = EmptyObject
  /\ fileCount = 0
  /\ attempts = EmptyObject
  /\ pendingAdds = {}
  /\ delivered = EmptyObject
  /\ cancelled = {}
  /\ previews = {}
  /\ lastOp = Other

\* ---------------------------------------------------------------- drafts
\* hasDraft(channelId): "undefined" when the channel has no entry, "TypeError"
\* when the entry has no content (entry.content is undefined and .length throws)
hasDraft(c) ==
  IF c \notin DOMAIN drafts THEN "undefined"
  ELSE IF "content" \notin DOMAIN drafts[c] THEN "TypeError"
  ELSE IF drafts[c].content # "" THEN "true" ELSE "false"

\* setDraft(channelId, data) with a plain object
SetDraft(c, data) ==
  /\ lastOp' = Other
  /\ drafts' = StoreSet(drafts, c, data, {})
  /\ UNCHANGED <<outbox, fileCache, fileCount, attempts, pendingAdds, delivered, cancelled, previews>>

ClearDraftKeepsCache(c) ==
  /\ lastOp' = Other
  /\ drafts' = StoreSet(drafts, c, [content |-> "", replies |-> <<>>, files |-> <<>>], {})
  /\ UNCHANGED <<outbox, fileCache, fileCount, attempts, pendingAdds, delivered, cancelled, previews>>

\* clearDraft(channelId)
ClearDraft(c) ==
  /\ lastOp' = Other
  /\ fileCache' = Remove(fileCache, Range(FilesOf(getDraft(c))))
  /\ drafts' = StoreSet(drafts, c, [content |-> "", replies |-> <<>>, files |-> <<>>], {})
  /\ UNCHANGED <<outbox, fileCount, attempts, pendingAdds, delivered, cancelled, previews>>

AddReplyUnchecked(c, id, mention) ==
  /\ lastOp' = Other
  /\ IF Len(RepliesOf(getDraft(c))) >= MAX_REPLIES
     THEN UNCHANGED drafts
     ELSE drafts' = StoreSet(drafts, c,
            [replies |-> Append(RepliesOf(getDraft(c)), [id |-> id, mention |-> mention])], {})
  /\ UNCHANGED <<outbox, fileCache, fileCount, attempts, pendingAdds, delivered, cancelled, previews>>

\* addReply(message, selfId); mention is shouldMention
AddReply(c, id, mention) ==
  /\ lastOp' = Other
  /\ IF \E i \in DOMAIN RepliesOf(getDraft(c)) : RepliesOf(getDraft(c))[i].id = id
     THEN UNCHANGED drafts
     ELSE IF Len(RepliesOf(getDraft(c))) >= MAX_REPLIES
     THEN UNCHANGED drafts
     ELSE drafts' = StoreSet(drafts, c,
            [replies |-> Append(RepliesOf(getDraft(c)), [id |-> id, mention |-> mention])], {})
  /\ UNCHANGED <<outbox, fileCache, fileCount, attempts, pendingAdds, delivered, cancelled, previews>>

\* replies.map of toggleReplyMention
ToggleIn(replies, id) ==
  [i \in DOMAIN replies |-> IF replies[i].id = id
                            THEN [id |-> id, mention |-> ~replies[i].mention]
                            ELSE replies[i]]

\* toggleReplyMention(channelId, messageId)
ToggleReplyMention(c, id) ==
  /\ lastOp' = Other
  /\ drafts' = IF "replies" \in DOMAIN getDraft(c)
               THEN StoreSet(drafts, c, [replies |-> ToggleIn(getDraft(c).replies, id)], {})
               ELSE StoreSet(drafts, c, EmptyObject, {"replies"})
  /\ UNCHANGED <<outbox, fileCache, fileCount, attempts, pendingAdds, delivered, cancelled, previews>>

\* removeReply(channelId, messageId)
RemoveReply(c, id) ==
  /\ lastOp' = Other
  /\ drafts' = IF "replies" \in DOMAIN getDraft(c)
               THEN StoreSet(drafts, c,
                      [replies |-> SelectSeq(getDraft(c).replies, LAMBDA reply : reply.id # id)], {})
               ELSE StoreSet(drafts, c, EmptyObject, {"replies"})
  /\ UNCHANGED <<outbox, fileCache, fileCount, attempts, pendingAdds, delivered, cancelled, previews>>

\* popFromDraft(channelId): the last reply, else the last file, else nothing
PopFromDraft(c) ==
  /\ lastOp' = Other
  /\ IF Len(RepliesOf(getDraft(c))) > 0
     THEN drafts' = StoreSet(drafts, c,
            [replies |-> SubSeq(getDraft(c).replies, 1, Len(getDraft(c).replies) - 1)], {})
     ELSE IF Len(FilesOf(getDraft(c))) > 0
     THEN drafts' = StoreSet(drafts, c,
            [files |-> SubSeq(getDraft(c).files, 1, Len(getDraft(c).files) - 1)], {})
     ELSE UNCHANGED drafts
  /\ UNCHANGED <<outbox, fileCache, fileCount, attempts, pendingAdds, delivered, cancelled, previews>>

\* ---------------------------------------------------------------- files
\* addFile(channelId, file) up to its await: a file of an allowed image type
\* gets a preview reference and waits for the image to decode
AddFile(c, image) ==
  /\ lastOp' = Other
  /\ fileCount < MaxFiles
  /\ fileCount' = fileCount + 1
  /\ fileCache' = Put(fileCache, NextFileId, [dataUri |-> image, autumnId |-> NoId])
  /\ IF image
     THEN /\ pendingAdds' = pendingAdds \cup {<<NextFileId, c>>}
          /\ UNCHANGED drafts
     ELSE /\ drafts' = StoreSet(drafts, c, [files |-> Append(FilesOf(getDraft(c)), NextFileId)], {})
          /\ UNCHANGED pendingAdds
  /\ previews' = IF image THEN previews \cup {NextFileId} ELSE previews
  /\ UNCHANGED <<outbox, attempts, delivered, cancelled>>

\* addFile after the await (image.onload or the swallowed image.onerror)
AddFileDecoded(p) ==
  /\ lastOp' = Other
  /\ p \in pendingAdds
  /\ pendingAdds' = pendingAdds \ {p}
  /\ drafts' = StoreSet(drafts, p[2], [files |-> Append(FilesOf(getDraft(p[2])), p[1])], {})
  /\ UNCHANGED <<outbox, fileCache, fileCount, attempts, delivered, cancelled, previews>>

\* the URL.revokeObjectURL call of deleteFile(fileId)
RevokePreview(urls, cache, f) ==
  IF f \in DOMAIN cache /\ cache[f].dataUri THEN urls \ {f} ELSE urls

deleteFileKeeps(cache, f) == cache

\* deleteFile(fileId)
deleteFile(cache, f) == Remove(cache, {f})

\* the setDraft call of removeFile(channelId, fileId)
RemoveFileFromDraft(ds, c, f) ==
  IF "files" \in DOMAIN GetDraftOf(ds, c)
  THEN StoreSet(ds, c, [files |-> FilterSeq(GetDraftOf(ds, c).files, {f})], {})
  ELSE StoreSet(ds, c, EmptyObject, {"files"})

\* removeFile(channelId, fileId), called for a file of the channel's draft
RemoveFile(c, f) ==
  /\ lastOp' = Other
  /\ f \in Range(FilesOf(getDraft(c)))
  /\ previews' = RevokePreview(previews, fileCache, f)
  /\ fileCache' = deleteFile(fileCache, f)
  /\ drafts' = RemoveFileFromDraft(drafts, c, f)
  /\ UNCHANGED <<outbox, fileCount, attempts, pendingAdds, delivered, cancelled>>

\* ---------------------------------------------------------------- sending
\* popDraft(channelId): the object it returns ...
PoppedDraft(d) ==
  Merge(Restrict(d, {"content", "replies"}),
        IF "files" \in DOMAIN d
        THEN [files |-> SubSeq(d.files, 1, Min(MAX_ATTACHMENTS, Len(d.files)))]
        ELSE EmptyObject)

DraftAfterPopOffByOne(ds, c) ==
  IF "files" \in DOMAIN GetDraftOf(ds, c)
  THEN StoreSet(ds, c, [content |-> "", replies |-> <<>>,
                        files |-> SubSeq(GetDraftOf(ds, c).files, MAX_ATTACHMENTS,
                                         Len(GetDraftOf(ds, c).files))], {})
  ELSE StoreSet(ds, c, [content |-> "", replies |-> <<>>], {"files"})

\* ... and the draft it leaves behind
DraftAfterPop(ds, c) ==
  IF "files" \in DOMAIN GetDraftOf(ds, c)
  THEN StoreSet(ds, c, [content |-> "", replies |-> <<>>,
                        files |-> SubSeq(GetDraftOf(ds, c).files, MAX_ATTACHMENTS + 1,
                                         Len(GetDraftOf(ds, c).files))], {})
  ELSE StoreSet(ds, c, [content |-> "", replies |-> <<>>], {"files"})

CanSendNoLength(draft) == ContentOf(draft) # "" \/ "files" \in DOMAIN draft

\* "Check if this is something we can even send"
CanSend(draft) == ContentOf(draft) # "" \/ Len(FilesOf(draft)) > 0

\* the upload loop of sendDraft from file number i on, run until it awaits an
\* upload (pc "upload"), awaits sendMessage (pc "send") or throws on a file
\* that is not in the cache (pc "typeError")
RECURSIVE RunUploads(_, _, _, _)
RunUploads(files, i, atts, cache) ==
  IF i > Len(files) THEN [pc |-> "send", idx |-> i, attachments |-> atts]
  ELSE IF files[i] \notin DOMAIN cache THEN [pc |-> "typeError", idx |-> i, attachments |-> atts]
  ELSE IF cache[files[i]].autumnId # NoId
       THEN RunUploads(files, i + 1, Append(atts, cache[files[i]].autumnId), cache)
  ELSE [pc |-> "upload", idx |-> i, attachments |-> atts]

NewEntryUnsent(draft, key) == Merge(draft, [idempotencyKey |-> key, status |-> "unsent"])

NewEntryKeepsKey(draft, key) == Merge([idempotencyKey |-> key, status |-> "sending"], draft)

\* the outbox entry of a new send attempt
NewEntry(draft, key) == Merge(draft, [idempotencyKey |-> key, status |-> "sending"])

\* sendDraft from "Add message to the outbox" to its first await
StartAttempt(c, draft, ob, origin, retryOf) ==
  /\ outbox' = Put(ob, c, Append(IF c \in DOMAIN ob THEN ob[c] ELSE <<>>, NewEntry(draft, NextKey)))
  /\ attempts' = Put(attempts, NextKey,
       Merge([channel |-> c, draft |-> Restrict(draft, DraftKeys), origin |-> origin,
              retryOf |-> retryOf, failedUploads |-> 0],
             RunUploads(FilesOf(draft), 1, <<>>, fileCache)))

\* sendDraft(client, channel) without an explicit draft
SendDraft(c) ==
  /\ lastOp' = [op |-> "sendDraft", channel |-> c]
  /\ drafts' = DraftAfterPop(drafts, c)
  /\ IF CanSend(PoppedDraft(getDraft(c)))
     THEN /\ NextKey <= MaxKeys
          /\ StartAttempt(c, PoppedDraft(getDraft(c)), outbox, NextKey, 0)
     ELSE UNCHANGED <<outbox, attempts>>
  /\ UNCHANGED <<fileCache, fileCount, pendingAdds, delivered, cancelled, previews>>

UploadIgnoresError(a) ==
  Merge(a, RunUploads(FilesOf(a.draft), a.idx + 1, a.attachments, fileCache))

\* if (!success) throw "Upload Error": the attempt ends, nothing catches it
UploadThrows(a) == Merge(a, [pc |-> "uploadError"])

\* the upload of file number idx of attempt k ends (xhr "loadend")
UploadDone(k, success) ==
  /\ lastOp' = Other
  /\ k \in DOMAIN attempts
  /\ attempts[k].pc = "upload"
  /\ LET a == attempts[k]
         f == FilesOf(a.draft)[a.idx]
     IN IF ~success
        THEN /\ attempts' = Put(attempts, k,
                  Merge(UploadThrows(a), [failedUploads |-> a.failedUploads + 1]))
             /\ UNCHANGED fileCache
        ELSE IF f \notin DOMAIN fileCache
        THEN \* this.fileCache[fileId] is undefined: the assignment throws
             /\ attempts' = Put(attempts, k,
                  Merge(a, [pc |-> "typeError", attachments |-> Append(a.attachments, ServerId(k, f))]))
             /\ UNCHANGED fileCache
        ELSE /\ fileCache' = Put(fileCache, f, Merge(fileCache[f], [autumnId |-> ServerId(k, f)]))
             /\ attempts' = Put(attempts, k,
                  Merge(a, RunUploads(FilesOf(a.draft), a.idx + 1,
                                      Append(a.attachments, ServerId(k, f)), fileCache')))
  /\ UNCHANGED <<drafts, outbox, fileCount, pendingAdds, delivered, cancelled, previews>>

\* the "for (const file of files) this.removeFile(channel.id, file)" loop
RECURSIVE DeleteFiles(_, _)
DeleteFiles(cache, files) ==
  IF files = <<>> THEN cache ELSE DeleteFiles(deleteFile(cache, Head(files)), Tail(files))

RECURSIVE RevokePreviews(_, _, _)
RevokePreviews(urls, cache, files) ==
  IF files = <<>> THEN urls
  ELSE RevokePreviews(RevokePreview(urls, cache, Head(files)),
                      deleteFile(cache, Head(files)), Tail(files))

RECURSIVE RemoveFilesFromDraft(_, _, _)
RemoveFilesFromDraft(ds, c, files) ==
  IF files = <<>> THEN ds
  ELSE RemoveFilesFromDraft(RemoveFileFromDraft(ds, c, Head(files)), c, Tail(files))

OnlyKey(list, k) == SelectSeq(list, LAMBDA entry : entry.idempotencyKey = k)

\* outbox list without the entry of key k
WithoutKey(list, k) == SelectSeq(list, LAMBDA entry : entry.idempotencyKey # k)

MarkFailedDrops(list, k) == SelectSeq(list, LAMBDA entry : entry.idempotencyKey # k)

\* outbox list with the entry of key k marked failed
MarkFailed(list, k) ==
  [i \in DOMAIN list |-> IF list[i].idempotencyKey = k
                         THEN Merge(list[i], [status |-> "failed"]) ELSE list[i]]

DeliveredOf(o) == IF o \in DOMAIN delivered THEN delivered[o] ELSE 0

\* channel.sendMessage of attempt k returns (ok) or throws
SendDone(k, ok) ==
  /\ lastOp' = Other
  /\ k \in DOMAIN attempts
  /\ attempts[k].pc = "send"
  /\ LET a == attempts[k]
     IN IF ok
        THEN /\ IF "files" \in DOMAIN a.draft
                THEN /\ previews' = RevokePreviews(previews, fileCache, a.draft.files)
                     /\ fileCache' = DeleteFiles(fileCache, a.draft.files)
                     /\ drafts' = RemoveFilesFromDraft(drafts, a.channel, a.draft.files)
                ELSE UNCHANGED <<fileCache, drafts, previews>>
             /\ outbox' = Put(outbox, a.channel, WithoutKey(getPendingMessages(a.channel), k))
             /\ attempts' = Put(attempts, k, Merge(a, [pc |-> "done"]))
             /\ delivered' = Put(delivered, a.origin, DeliveredOf(a.origin) + 1)
        ELSE /\ outbox' = Put(outbox, a.channel, MarkFailed(getPendingMessages(a.channel), k))
             /\ attempts' = Put(attempts, k, Merge(a, [pc |-> "failed"]))
             /\ UNCHANGED <<fileCache, drafts, delivered, previews>>
  /\ UNCHANGED <<fileCount, pendingAdds, cancelled>>

\* cancelSend(channel, idempotencyKey)
CancelSend(c, k) ==
  /\ lastOp' = Other
  /\ outbox' = Put(outbox, c, WithoutKey(getPendingMessages(c), k))
  /\ cancelled' = IF \E i \in DOMAIN getPendingMessages(c) : getPendingMessages(c)[i].idempotencyKey = k
                  THEN cancelled \cup {k} ELSE cancelled
  /\ UNCHANGED <<drafts, fileCache, fileCount, attempts, pendingAdds, delivered, previews>>

\* the entry retrySend finds, as a set: empty when find() returns undefined
FindEntry(list, k) == {list[i] : i \in {j \in DOMAIN list : list[j].idempotencyKey = k}}

\* retrySend(client, channel, idempotencyKey)
RetrySend(c, k) ==
  /\ lastOp' = Other
  /\ NextKey <= MaxKeys
  /\ IF c \notin DOMAIN outbox
     THEN \* outbox[channel.id] is undefined: find() throws before anything is done
          UNCHANGED <<drafts, outbox, attempts>>
     ELSE IF FindEntry(outbox[c], k) # {}
     THEN \* sendDraft(client, channel, draft) with the entry as the draft
          /\ IF CanSend(CHOOSE e \in FindEntry(outbox[c], k) : TRUE)
             THEN StartAttempt(c, CHOOSE e \in FindEntry(outbox[c], k) : TRUE,
                               Put(outbox, c, WithoutKey(outbox[c], k)), attempts[k].origin, k)
             ELSE /\ outbox' = Put(outbox, c, WithoutKey(outbox[c], k))
                  /\ UNCHANGED attempts
          /\ UNCHANGED drafts
     ELSE \* sendDraft(client, channel, undefined) pops the live draft
          /\ drafts' = DraftAfterPop(drafts, c)
          /\ IF CanSend(PoppedDraft(getDraft(c)))
             THEN StartAttempt(c, PoppedDraft(getDraft(c)),
                               Put(outbox, c, WithoutKey(outbox[c], k)), NextKey, 0)
             ELSE /\ outbox' = Put(outbox, c, WithoutKey(outbox[c], k))
                  /\ UNCHANGED attempts
  /\ UNCHANGED <<fileCache, fileCount, pendingAdds, delivered, cancelled, previews>>

\* ---------------------------------------------------------------- spec
\* Spec adds files that are not images (FileKinds), so addFile never waits
\* and AddFileDecoded has nothing to resume; removeFile is called for files
\* of the channel's draft; retrySend and cancelSend are called with any key
\* handed out so far, whatever the state of its entry and attempt.
Next ==
  \/ \E c \in Channels, t \in Contents : SetDraft(c, [content |-> t])
  \/ \E c \in Channels : ClearDraft(c)
  \/ \E c \in Channels, id \in MessageIds, mention \in BOOLEAN : AddReply(c, id, mention)
  \/ \E c \in Channels, image \in FileKinds : AddFile(c, image)
  \/ \E c \in Channels, f \in DOMAIN fileCache : RemoveFile(c, f)
  \/ \E c \in Channels : SendDraft(c)
  \/ \E k \in DOMAIN attempts, success \in BOOLEAN : UploadDone(k, success)
  \/ \E k \in DOMAIN attempts, ok \in BOOLEAN : SendDone(k, ok)
  \/ \E c \in Channels, k \in DOMAIN attempts : CancelSend(c, k)
  \/ \E c \in Channels, k \in DOMAIN attempts : RetrySend(c, k)

Spec == Init /\ [][Next]_vars

\* ------------------------------------------------------- two channels
\* the same store used from two channels at once, with fewer files
ChannelsTwo == {"A", "B"}
MaxFilesTwo == 1

NextTwo ==
  \/ \E c \in ChannelsTwo, t \in Contents : SetDraft(c, [content |-> t])
  \/ \E c \in ChannelsTwo : ClearDraft(c)
  \/ \E c \in ChannelsTwo, image \in FileKinds : fileCount < MaxFilesTwo /\ AddFile(c, image)
  \/ \E c \in ChannelsTwo, f \in DOMAIN fileCache : RemoveFile(c, f)
  \/ \E c \in ChannelsTwo : SendDraft(c)
  \/ \E k \in DOMAIN attempts, success \in BOOLEAN : UploadDone(k, success)
  \/ \E k \in DOMAIN attempts, ok \in BOOLEAN : SendDone(k, ok)
  \/ \E c \in ChannelsTwo, k \in DOMAIN attempts : CancelSend(c, k)
  \/ \E c \in ChannelsTwo, k \in DOMAIN attempts : RetrySend(c, k)

SpecTwo == Init /\ [][NextTwo]_vars

\* ------------------------------------------------------- editing a draft
\* the draft of one channel edited without sending: three messages to reply
\* to, files that are images (with a preview, added after the image decodes)
\* and files that are not
MessageIdsDraft == {"m1", "m2", "m3"}
MaxFilesDraft == 3

NextDraft ==
  \/ \E c \in Channels, t \in Contents : SetDraft(c, [content |-> t])
  \/ \E c \in Channels : ClearDraft(c)
  \/ \E c \in Channels, id \in MessageIdsDraft, mention \in BOOLEAN : AddReply(c, id, mention)
  \/ \E c \in Channels, id \in MessageIdsDraft : ToggleReplyMention(c, id)
  \/ \E c \in Channels, id \in MessageIdsDraft : RemoveReply(c, id)
  \/ \E c \in Channels : PopFromDraft(c)
  \/ \E c \in Channels, image \in BOOLEAN : fileCount < MaxFilesDraft /\ AddFile(c, image)
  \/ \E p \in pendingAdds : AddFileDecoded(p)
  \/ \E c \in Channels, f \in DOMAIN fileCache : RemoveFile(c, f)

SpecDraft == Init /\ [][NextDraft]_vars

\* the step is an operation called with channel c, or the continuation of a
\* sendDraft call made with channel c
OpOn(c) ==
  \/ \E t \in Contents : SetDraft(c, [content |-> t])
  \/ ClearDraft(c)
  \/ \E image \in FileKinds : AddFile(c, image)
  \/ \E f \in DOMAIN fileCache : RemoveFile(c, f)
  \/ SendDraft(c)
  \/ \E k \in DOMAIN attempts, ok \in BOOLEAN :
       attempts[k].channel = c /\ (UploadDone(k, ok) \/ SendDone(k, ok))
  \/ \E k \in DOMAIN attempts : CancelSend(c, k) \/ RetrySend(c, k)

\* ---------------------------------------------------------------- claims
KeysIn(list) == {list[i].idempotencyKey : i \in DOMAIN list}

EntryOf(list, k) == CHOOSE e \in FindEntry(list, k) : TRUE

\* a payload is named by the key of the sendDraft call that popped it
Payloads == {k \in DOMAIN attempts : attempts[k].origin = k}

\* C1: every payload popped by a sendDraft call is delivered by a successful
\* sendMessage at most once, whatever sendDraft, retrySend and cancelSend do
C1_NoDuplicateDelivery == \A o \in DOMAIN delivered : delivered[o] <= 1

\* C2: a popped payload that is neither delivered nor removed by an explicit
\* cancelSend has an outbox entry of its channel carrying its content, replies
\* and files
C2_NoLoss ==
  \A o \in Payloads :
    (DeliveredOf(o) = 0 /\ ~(\E k \in cancelled : attempts[k].origin = o))
    => \E e \in Range(getPendingMessages(attempts[o].channel)) :
         /\ attempts[e.idempotencyKey].origin = o
         /\ Restrict(e, DraftKeys) = attempts[o].draft

\* the payload of C2 survived an upload error and a retry and is still queued
C2_Witness ==
  \E k \in DOMAIN attempts :
    /\ attempts[k].retryOf # 0
    /\ attempts[attempts[k].retryOf].pc = "uploadError"
    /\ attempts[k].pc = "failed"
    /\ DeliveredOf(attempts[k].origin) = 0
    /\ k \in KeysIn(getPendingMessages(attempts[k].channel))

\* C3: once the sendMessage call of an attempt has succeeded, no file of the
\* attempt's file list is in the attachment cache and its channel's outbox has
\* no entry with the attempt's idempotency key
C3_SuccessReleases ==
  \A k \in DOMAIN attempts :
    attempts[k].pc = "done"
    => /\ \A f \in Range(FilesOf(attempts[k].draft)) : f \notin DOMAIN fileCache
       /\ k \notin KeysIn(getPendingMessages(attempts[k].channel))

\* an attempt with two files was sent successfully
C3_Witness ==
  \E k \in DOMAIN attempts : attempts[k].pc = "done" /\ Len(FilesOf(attempts[k].draft)) = 2

\* C4: at the step where the sendMessage call of an attempt fails, the outbox
\* entry with its key (when there is one) is failed with the attempt's content,
\* replies and files, and every file it references is in the cache with a
\* server id
C4_FailureKeepsFiles ==
  [][\A k \in DOMAIN attempts :
       (attempts[k].pc = "send" /\ attempts'[k].pc = "failed"
        /\ k \in KeysIn(outbox'[attempts[k].channel]))
       => /\ EntryOf(outbox'[attempts[k].channel], k).status = "failed"
          /\ Restrict(EntryOf(outbox'[attempts[k].channel], k), DraftKeys) = attempts[k].draft
          /\ \A f \in Range(FilesOf(attempts[k].draft)) :
               f \in DOMAIN fileCache' /\ fileCache'[f].autumnId # NoId]_vars

\* C5: an attempt one of whose uploads ended without success has stopped for
\* good at that file (no later upload, no sendMessage), the step left the outbox
\* and the cache alone, and as long as nothing cancels or retries its outbox
\* entry, the entry stays, in status sending
C5_UploadErrorAborts ==
  [][\A k \in DOMAIN attempts :
       /\ (attempts'[k].failedUploads > attempts[k].failedUploads)
          => /\ attempts'[k].pc = "uploadError"
             /\ attempts'[k].idx = attempts[k].idx
             /\ outbox' = outbox /\ fileCache' = fileCache
       /\ (attempts[k].failedUploads > 0)
          => /\ attempts'[k] = attempts[k]
             /\ (k \in KeysIn(getPendingMessages(attempts[k].channel))
                 => /\ EntryOf(outbox[attempts[k].channel], k).status = "sending"
                    /\ \/ EntryOf(outbox[attempts[k].channel], k)
                            \in Range(outbox'[attempts[k].channel])
                       \/ k \in cancelled'
                       \/ \E n \in DOMAIN attempts' : attempts'[n].retryOf = k)]_vars

\* the first of two uploads failed and the entry is still there
C5_Witness ==
  \E k \in DOMAIN attempts :
    /\ attempts[k].pc = "uploadError"
    /\ attempts[k].idx < Len(FilesOf(attempts[k].draft))
    /\ k \in KeysIn(getPendingMessages(attempts[k].channel))

\* C6: a retrySend step on the entry of key k replaces the channel's list by
\* the list without that entry followed by a new entry: status sending, the same
\* content, replies and files, and a key that is not k and was in no outbox
C6_RetryReplaces ==
  [][\A n \in (DOMAIN attempts') \ (DOMAIN attempts) :
       attempts'[n].retryOf # 0
       => LET k == attempts'[n].retryOf
              c == attempts'[n].channel
              old == outbox[c]
              i == CHOOSE j \in DOMAIN old : old[j].idempotencyKey = k
              new == outbox'[c]
          IN /\ k \in KeysIn(old)
             /\ Len(new) = Len(old)
             /\ SubSeq(new, 1, Len(old) - 1) = SubSeq(old, 1, i - 1) \o SubSeq(old, i + 1, Len(old))
             /\ new[Len(new)].status = "sending"
             /\ Restrict(new[Len(new)], DraftKeys) = Restrict(old[i], DraftKeys)
             /\ new[Len(new)].idempotencyKey = n
             /\ n # k
             /\ \A x \in DOMAIN outbox : n \notin KeysIn(outbox[x])
             /\ \A x \in (DOMAIN outbox') \ {c} : outbox'[x] = outbox[x]]_vars

\* a failed entry with a file was retried and the new entry is queued
C6_Witness ==
  \E n \in DOMAIN attempts :
    /\ attempts[n].retryOf # 0
    /\ attempts[attempts[n].retryOf].pc = "failed"
    /\ FilesOf(attempts[n].draft) # <<>>
    /\ n \in KeysIn(getPendingMessages(attempts[n].channel))

\* C7: the server id of a cache entry, once set, is never set again, and an
\* attempt waits for the upload of a file only if the file has no server id
C7_ServerIdSetOnce ==
  [][/\ \A f \in (DOMAIN fileCache) \cap (DOMAIN fileCache') :
          fileCache[f].autumnId # NoId => fileCache'[f].autumnId = fileCache[f].autumnId
     /\ \A k \in DOMAIN attempts' :
          (attempts'[k].pc = "upload" /\ (k \notin DOMAIN attempts \/ attempts[k] # attempts'[k]))
          => fileCache'[FilesOf(attempts'[k].draft)[attempts'[k].idx]].autumnId = NoId]_vars

C9_EmptySendNoop ==
  [][(/\ lastOp'.op = "sendDraft"
      /\ ContentOf(getDraft(lastOp'.channel)) = ""
      /\ Len(FilesOf(getDraft(lastOp'.channel))) = 0)
     => outbox' = outbox /\ attempts' = attempts]_vars

\* the only attempt has already failed, so the sendDraft call that was the last
\* step started none: it returned early, beside the queued entry
C9_Witness ==
  /\ lastOp.op = "sendDraft"
  /\ getDraft(lastOp.channel) = [content |-> "", replies |-> <<>>]
  /\ DOMAIN attempts = {1}
  /\ attempts[1].pc = "failed"
  /\ getPendingMessages(lastOp.channel) # <<>>

\* C10: a sendDraft call on a channel whose live draft has neither content nor
\* files leaves the channel's draft (content, replies, files) as it was
C10_EmptySendKeepsDraft ==
  [][(/\ lastOp'.op = "sendDraft"
      /\ ContentOf(getDraft(lastOp'.channel)) = ""
      /\ Len(FilesOf(getDraft(lastOp'.channel))) = 0)
     => /\ ContentOf(GetDraftOf(drafts', lastOp'.channel)) = ContentOf(getDraft(lastOp'.channel))
        /\ RepliesOf(GetDraftOf(drafts', lastOp'.channel)) = RepliesOf(getDraft(lastOp'.channel))
        /\ FilesOf(GetDraftOf(drafts', lastOp'.channel)) = FilesOf(getDraft(lastOp'.channel))]_vars

\* C11: a sendDraft call that pops a draft with n files sends the first
\* min(n, MAX_ATTACHMENTS) of them and leaves the others as the new draft's
\* files, both in the original order and with no file in both or in neither;
\* the new draft has no content and no replies
C11_PopSplitsFiles ==
  [][lastOp'.op = "sendDraft"
     => LET c == lastOp'.channel
            old == FilesOf(getDraft(c))
            rest == FilesOf(GetDraftOf(drafts', c))
            new == (DOMAIN attempts') \ (DOMAIN attempts)
            sent == IF new = {} THEN <<>> ELSE FilesOf(attempts'[CHOOSE n \in new : TRUE].draft)
        IN /\ (old # <<>> => new # {})
           /\ sent \o rest = old
           /\ Len(sent) = Min(Len(old), MAX_ATTACHMENTS)
           /\ Range(sent) \cap Range(rest) = {}
           /\ ContentOf(GetDraftOf(drafts', c)) = ""
           /\ RepliesOf(GetDraftOf(drafts', c)) = <<>>]_vars

\* sendDraft has just popped a draft of three files: two sent, one left
C11_Witness ==
  /\ lastOp.op = "sendDraft"
  /\ Len(FilesOf(getDraft(lastOp.channel))) = 1
  /\ \E k \in DOMAIN attempts :
       /\ Len(FilesOf(attempts[k].draft)) = MAX_ATTACHMENTS
       /\ attempts[k].draft.files \o getDraft(lastOp.channel).files = <<1, 2, 3>>

\* C12: every outbox entry that appears has a key never handed out before and
\* status sending, every new attempt has such an entry, and an entry that stays
\* under its key keeps its status or goes from sending to failed
C12_StatusMachine ==
  [][/\ \A n \in (DOMAIN attempts') \ (DOMAIN attempts) :
          \E e \in Range(outbox'[attempts'[n].channel]) :
             e.idempotencyKey = n /\ e.status = "sending"
     /\ \A c \in DOMAIN outbox' : \A e \in Range(outbox'[c]) :
          IF e.idempotencyKey \in KeysIn(getPendingMessages(c))
          THEN \/ e.status = EntryOf(outbox[c], e.idempotencyKey).status
               \/ /\ EntryOf(outbox[c], e.idempotencyKey).status = "sending"
                  /\ e.status = "failed"
          ELSE /\ e.idempotencyKey \notin DOMAIN attempts
               /\ e.status = "sending"]_vars

\* a failed entry was retried under a new key and the retry failed as well
C12_Witness ==
  \E n \in DOMAIN attempts :
    /\ attempts[n].retryOf # 0
    /\ attempts[attempts[n].retryOf].pc = "failed"
    /\ \E e \in Range(getPendingMessages(attempts[n].channel)) :
         e.idempotencyKey = n /\ e.status = "failed"
    /\ attempts[n].retryOf \notin KeysIn(getPendingMessages(attempts[n].channel))

\* C13: with two channels in use, every operation on one channel (and every
\* continuation of a send started on it) leaves the other channel's draft and
\* outbox as they were, whatever the interleaving
C13_ChannelsIndependent ==
  [][\A c \in ChannelsTwo :
       OpOn(c) => \A d \in ChannelsTwo \ {c} :
                    /\ GetDraftOf(drafts', d) = getDraft(d)
                    /\ (d \in DOMAIN outbox' <=> d \in DOMAIN outbox)
                    /\ (d \in DOMAIN outbox => outbox'[d] = outbox[d])]_vars

\* both channels have been used: one has a failed entry and a new draft, the
\* other an entry still being sent
C13_Witness ==
  \E c \in ChannelsTwo : \E d \in ChannelsTwo \ {c} :
    /\ \E e \in Range(getPendingMessages(c)) : e.status = "failed"
    /\ \E e \in Range(getPendingMessages(d)) : e.status = "sending"
    /\ ContentOf(getDraft(c)) = "hi"

\* C14 as stated: after clearDraft(C) getDraft(C) equals the empty object {}
\* and no file of the cleared draft is in the cache
C14_ClearGivesEmptyObject ==
  [][\A c \in Channels :
       ClearDraft(c) => /\ GetDraftOf(drafts', c) = EmptyObject
                        /\ Range(FilesOf(getDraft(c))) \cap DOMAIN fileCache' = {}]_vars

\* C14 amended: after clearDraft(C) getDraft(C) is the object with content "",
\* no replies and no files, and no file of the cleared draft is in the cache
C14_ClearGivesEmptyFields ==
  [][\A c \in Channels :
       ClearDraft(c) => /\ GetDraftOf(drafts', c) = [content |-> "", replies |-> <<>>, files |-> <<>>]
                        /\ Range(FilesOf(getDraft(c))) \cap DOMAIN fileCache' = {}]_vars

\* a draft that had files was cleared: no content, empty lists, files gone
\* from the cache (only clearDraft empties the content while editing)
C14_Witness ==
  /\ attempts = EmptyObject
  /\ fileCount > 0
  /\ \E c \in Channels :
       /\ getDraft(c) = [content |-> "", replies |-> <<>>, files |-> <<>>]
       /\ DOMAIN fileCache = {}

\* C15: hasDraft(C) returns true when the draft's content is not empty and
\* false (or the falsy undefined of a channel without entry) otherwise,
\* whatever its replies and files are
C15_HasDraftIffContent ==
  \A c \in Channels :
    IF ContentOf(getDraft(c)) # ""
    THEN hasDraft(c) = "true"
    ELSE hasDraft(c) \in {"false", "undefined"}

\* C16: the replies of every draft have pairwise distinct message ids and
\* are at most MAX_REPLIES, and addReply for a message already in the list or
\* for a full list leaves the list as it was
C16_RepliesDistinctBounded ==
  [][/\ \A c \in DOMAIN drafts' :
          /\ Len(RepliesOf(drafts'[c])) <= MAX_REPLIES
          /\ \A i, j \in DOMAIN RepliesOf(drafts'[c]) :
               RepliesOf(drafts'[c])[i].id = RepliesOf(drafts'[c])[j].id => i = j
     /\ \A c \in Channels, id \in MessageIdsDraft, mention \in BOOLEAN :
          /\ AddReply(c, id, mention)
          /\ \/ \E i \in DOMAIN RepliesOf(getDraft(c)) : RepliesOf(getDraft(c))[i].id = id
             \/ Len(RepliesOf(getDraft(c))) = MAX_REPLIES
          => RepliesOf(GetDraftOf(drafts', c)) = RepliesOf(getDraft(c))]_vars

\* a full list of replies to different messages, one of them with its mention
\* switched: every further addReply is refused
C16_Witness ==
  \E c \in Channels :
    /\ Len(RepliesOf(getDraft(c))) = MAX_REPLIES
    /\ RepliesOf(getDraft(c))[1].id # RepliesOf(getDraft(c))[2].id
    /\ RepliesOf(getDraft(c))[1].mention # RepliesOf(getDraft(c))[2].mention

\* C17: a file that removeFile, popFromDraft or clearDraft takes out of a
\* draft is no longer in the cache and its preview is released
C17_LeavingFileDestroyed ==
  [][\A c \in Channels :
       (\/ \E f \in DOMAIN fileCache : RemoveFile(c, f)
        \/ PopFromDraft(c)
        \/ ClearDraft(c))
       => \A f \in Range(FilesOf(getDraft(c))) \ Range(FilesOf(GetDraftOf(drafts', c))) :
            f \notin DOMAIN fileCache' /\ f \notin previews']_vars

\* C18, for finite runs: once no upload and no sendMessage call of an attempt
\* is outstanding, its outbox entry is not left in status sending
C18_NoEntryStuckSending ==
  \A k \in DOMAIN attempts :
    attempts[k].pc \notin {"upload", "send"}
    => \A e \in Range(getPendingMessages(attempts[k].channel)) :
         e.idempotencyKey = k => e.status # "sending"

\* C19: a retrySend call for a key that has no entry in the channel's outbox
\* leaves the drafts and the outbox as they are and starts no send attempt
C19_RetryUnknownKeyNoop ==
  [][\A c \in Channels, k \in DOMAIN attempts :
       RetrySend(c, k) /\ FindEntry(getPendingMessages(c), k) = {}
       => /\ drafts' = drafts
          /\ \A d \in Channels :
               (IF d \in DOMAIN outbox' THEN outbox'[d] ELSE <<>>) = getPendingMessages(d)
          /\ attempts' = attempts]_vars

\* C20: every file id in a draft or in an outbox entry (all entries are
\* sending or failed) has an entry in the attachment cache
C20_NoDanglingFile ==
  /\ \A c \in DOMAIN drafts : Range(FilesOf(drafts[c])) \subseteq DOMAIN fileCache
  /\ \A c \in DOMAIN outbox : \A e \in Range(outbox[c]) :
       Range(FilesOf(e)) \subseteq DOMAIN fileCache

====
